---------------------------- MODULE Spec2Model ----------------------------
(***************************************************************************)
(* A model of books-repo-py: the EPUB-to-chapters pipeline of              *)
(* book_processor.py, the speech generation of tts_utils.py and the voice  *)
(* comparison of voice_playground.py.                                      *)
(*                                                                         *)
(* A text is a sequence of one-character strings.  A path is a record of   *)
(* a directory and a file name, the name a sequence of characters.         *)
(***************************************************************************)
EXTENDS Naturals, Sequences, FiniteSets, TLC

VARIABLES
    clean_pc,       \* _clean_text: "ready" before the call, "done" after it
    text_in,        \* _clean_text: the argument
    text_out,       \* _clean_text: the value returned
    extract_pc,     \* extract_epub_content: "idle", "loop", "returned", "raised"
    book,           \* extract_epub_content: the EPUB read_epub yields
    item_idx,       \* extract_epub_content: the place of the for loop in get_items()
    chapters,       \* extract_epub_content: the list chapters
    chapter_num,    \* extract_epub_content: the running counter
    metadata,       \* extract_epub_content: the dict metadata
    fs_dirs,        \* the file system: the directories that exist
    fs_source,      \* the file system: source/{name} -> the EPUB copied there
    fs_metadata,    \* the file system: metadata.yml of the book project
    fs_toc,         \* the file system: toc.yml of the book project
    fs_chapters,    \* the file system: content/chapters/{filename}.md -> text
    fs_audio,       \* the file system: audio file path -> samples
    tts_inits,      \* how many times KPipeline(...) has been called
    tts_ready,      \* whether a TTSManager has been constructed
    tts_output_dir, \* TTSManager.output_dir
    synth_calls,    \* the pipeline calls made: the chapter (or voice) of each
    write_log,      \* the sf.write calls made: path and samples of each
    last_call,      \* the last generate_speech call: arguments, result, writes
    ga_pc,          \* generate_audio: "idle", "validated", "loop", "done",
                    \*   "exit1" (typer.Exit(1)), "raised" (an exception)
    ga_book_path,   \* generate_audio: the argument book_path
    ga_toc,         \* generate_audio: toc["chapters"] as loaded from toc.yml
    ga_chapters,    \* generate_audio: the argument chapters
    ga_model,       \* generate_audio: the option model
    ga_combine,     \* generate_audio: the option combine
    ga_idx,         \* generate_audio: the place of the for loop in chapters
    invalid_report, \* generate_audio: the list printed as "Invalid chapters"
    chapter_report, \* generate_audio: per chapter processed, "generated" or "failed"
    cmp_pc,         \* compare: "idle", "validated", "loop", "done",
                    \*   "exit1" (typer.Exit(1)), "raised" (an exception)
    cmp_text_file,  \* compare: the file the argument text_file names
    cmp_voices,     \* compare: the option voices (<<>> for None)
    cmp_all,        \* compare: the option all_voices
    voices_to_test, \* compare: the list voices_to_test
    invalid_voices, \* compare: the list printed as "Invalid voices"
    cmp_idx,        \* compare: the place of the for loop in voices_to_test
    results,        \* compare: the list results
    clock,          \* compare: what time.time() returns
    start_time,     \* compare: start_time of the current pass
    cv_pc,          \* convert: "ready", "idle", "structured", "copied",
                    \*   "extracted", "saved", "done" (status 0),
                    \*   "exit1" (typer.Exit(1)), "raised" (an exception)
    cv_args,        \* convert: the arguments epub_path, book_title, book_slug
    cv_slug,        \* convert: book_slug once it is given or derived
    cv_structure,   \* convert: the dict create_book_structure returned last
    cv_metadata,    \* convert: the dict metadata
    cv_chapters,    \* convert: the list chapters
    cv_runs         \* how many convert commands have been started

clean_vars == <<clean_pc, text_in, text_out>>

extract_vars == <<extract_pc, book, item_idx, chapters, chapter_num, metadata>>

fs_vars == <<fs_dirs, fs_source, fs_metadata, fs_toc, fs_chapters,
             fs_audio>>

tts_vars == <<tts_inits, tts_ready, tts_output_dir, synth_calls, write_log,
              last_call>>

ga_vars == <<ga_pc, ga_book_path, ga_toc, ga_chapters, ga_model, ga_combine,
             ga_idx, invalid_report, chapter_report>>

cmp_vars == <<cmp_pc, cmp_text_file, cmp_voices, cmp_all, voices_to_test,
              invalid_voices, cmp_idx, results, clock, start_time>>

cv_vars == <<cv_pc, cv_args, cv_slug, cv_structure, cv_metadata, cv_chapters,
             cv_runs>>

vars == <<clean_vars, extract_vars, fs_vars, tts_vars, ga_vars, cmp_vars,
          cv_vars>>

\* What each operation leaves alone.
not_clean_vars == <<extract_vars, fs_vars, tts_vars, ga_vars, cmp_vars,
                    cv_vars>>

not_extract_vars == <<clean_vars, fs_vars, tts_vars, ga_vars, cmp_vars,
                      cv_vars>>

not_audio_vars == <<clean_vars, extract_vars, cmp_vars, cv_vars>>

not_compare_vars == <<clean_vars, extract_vars, ga_vars, cv_vars>>

not_convert_vars == <<clean_vars, extract_vars, tts_vars, ga_vars, cmp_vars>>

---------------------------------------------------------------------------
(* Bounds of the model.                                                    *)

\* The longest text handed to _clean_text (beside the spec's scenario).
MaxTextLen == 5

\* The most items (document units and others) an EPUB holds.
MaxItems == 3

\* The most segments the synthesis engine yields for one call.
MaxSegments == 2

\* The most chapter numbers one generate_audio command names.
MaxRequested == 2

\* The most voices one compare command names with --voice.
MaxVoices == 2

\* The most convert commands run one after another on a book project.
MaxRuns == 2

---------------------------------------------------------------------------
(* Characters and texts.                                                   *)

\* Characters Python's \s and str.strip() take for whitespace.
Whitespace == {" ", "\t", "\n"}

\* Characters Python's \d takes for a digit.
Digits == {"0", "1", "2", "3", "4", "5", "6", "7", "8", "9"}

IsSpace(c) == c \in Whitespace

IsDigit(c) == c \in Digits

\* All sequences over S of length at most n.
SeqsUpTo(S, n) == UNION {[1..k -> S] : k \in 0..n}

\* The first index j >= i with s[j] outside Class, or Len(s) + 1: where a
\* greedy Class* that starts at i stops.
RECURSIVE RunEnd(_, _, _)
RunEnd(s, i, Class) ==
    IF i > Len(s) \/ s[i] \notin Class THEN i ELSE RunEnd(s, i + 1, Class)

\* The last index in lo..hi-1 holding a newline, or 0.
RECURSIVE LastNewline(_, _, _)
LastNewline(s, lo, hi) ==
    IF hi <= lo THEN 0
    ELSE IF s[hi - 1] = "\n" THEN hi - 1
    ELSE LastNewline(s, lo, hi - 1)

\* s from index i on.
From(s, i) == IF i > Len(s) THEN <<>> ELSE SubSeq(s, i, Len(s))

---------------------------------------------------------------------------
(* BookProcessor._clean_text.                                              *)

\* re.sub(r"\s+", " ", text): every maximal whitespace run becomes one space.
RECURSIVE CollapseWhitespace(_, _)
CollapseWhitespace(s, i) ==
    IF i > Len(s) THEN <<>>
    ELSE IF IsSpace(s[i])
         THEN <<" ">> \o CollapseWhitespace(s, RunEnd(s, i, Whitespace))
         ELSE <<s[i]>> \o CollapseWhitespace(s, i + 1)

\* Where a match of \n\s*\d+\s*\n that starts at i ends (the index after it),
\* or 0 when there is none.  \s* takes the whole whitespace run, \d+ the whole
\* digit run, and the closing \n is the last newline of the whitespace run
\* that follows (greedy, then backtracking to a newline).
PageNumberMatchEnd(s, i) ==
    IF s[i] # "\n" THEN 0
    ELSE LET j == RunEnd(s, i + 1, Whitespace)
             k == RunEnd(s, j, Digits)
             m == RunEnd(s, k, Whitespace)
             n == LastNewline(s, k, m)
         IN  IF k > j /\ n # 0 THEN n + 1 ELSE 0

\* re.sub(r"\n\s*\d+\s*\n", "\n", text): leftmost matches, not overlapping.
RECURSIVE RemovePageNumbers(_, _)
RemovePageNumbers(s, i) ==
    IF i > Len(s) THEN <<>>
    ELSE LET e == PageNumberMatchEnd(s, i)
         IN  IF e # 0 THEN <<"\n">> \o RemovePageNumbers(s, e)
             ELSE <<s[i]>> \o RemovePageNumbers(s, i + 1)

\* Where a match of \n\s*\n that starts at i ends, or 0.
BlankLinesMatchEnd(s, i) ==
    IF s[i] # "\n" THEN 0
    ELSE LET m == RunEnd(s, i + 1, Whitespace)
             n == LastNewline(s, i + 1, m)
         IN  IF n # 0 THEN n + 1 ELSE 0

\* re.sub(r"\n\s*\n", "\n\n", text).
RECURSIVE ParagraphBreaks(_, _)
ParagraphBreaks(s, i) ==
    IF i > Len(s) THEN <<>>
    ELSE LET e == BlankLinesMatchEnd(s, i)
         IN  IF e # 0 THEN <<"\n", "\n">> \o ParagraphBreaks(s, e)
             ELSE <<s[i]>> \o ParagraphBreaks(s, i + 1)

\* str.lstrip().
LStrip(s) == From(s, RunEnd(s, 1, Whitespace))

\* str.rstrip().
RECURSIVE RStrip(_)
RStrip(s) ==
    IF s = <<>> \/ ~IsSpace(s[Len(s)]) THEN s
    ELSE RStrip(SubSeq(s, 1, Len(s) - 1))

\* A strip() that forgets the right end.
Strip_LeftOnly(s) == LStrip(s)

\* str.strip().
Strip(s) == RStrip(LStrip(s))

\* _clean_text: the three substitutions in the order of the code, then strip.
_clean_text(text) ==
    LET t1 == CollapseWhitespace(text, 1)
        t2 == RemovePageNumbers(t1, 1)
        t3 == ParagraphBreaks(t2, 1)
    IN  Strip(t3)

---------------------------------------------------------------------------
(* Numbers and letters in text.                                            *)

DigitChars == <<"0", "1", "2", "3", "4", "5", "6", "7", "8", "9">>

UpperLetters ==
    <<"A", "B", "C", "D", "E", "F", "G", "H", "I", "J", "K", "L", "M",
      "N", "O", "P", "Q", "R", "S", "T", "U", "V", "W", "X", "Y", "Z">>

LowerLetters ==
    <<"a", "b", "c", "d", "e", "f", "g", "h", "i", "j", "k", "l", "m",
      "n", "o", "p", "q", "r", "s", "t", "u", "v", "w", "x", "y", "z">>

Range(f) == {f[i] : i \in DOMAIN f}

\* str(n) of a natural number: its decimal digits.
RECURSIVE ToDigits(_)
ToDigits(n) ==
    IF n < 10 THEN <<DigitChars[n + 1]>>
    ELSE ToDigits(n \div 10) \o <<DigitChars[(n % 10) + 1]>>

\* w zeros.
RECURSIVE Zeros(_)
Zeros(w) == IF w = 0 THEN <<>> ELSE <<"0">> \o Zeros(w - 1)

\* f"{n:0wd}": the digits of n, zero-padded on the left to width w (and
\* longer when n has more than w digits).
ZeroPad(n, w) ==
    LET d == ToDigits(n)
    IN  IF Len(d) >= w THEN d ELSE Zeros(w - Len(d)) \o d

\* Characters Python's \w matches (ASCII part): letters, digits, underscore.
IsWord(c) ==
    c \in Range(UpperLetters) \cup Range(LowerLetters) \cup Digits \cup {"_"}

\* str.lower() on one character.
LowerChar(c) ==
    IF c \in Range(UpperLetters)
    THEN LowerLetters[CHOOSE i \in DOMAIN UpperLetters : UpperLetters[i] = c]
    ELSE c

\* str.lower().
Lower(s) == [i \in DOMAIN s |-> LowerChar(s[i])]

\* len(text.split()): the number of maximal runs of non-whitespace.
RECURSIVE WordCount(_, _)
WordCount(s, i) ==
    IF i > Len(s) THEN 0
    ELSE IF IsSpace(s[i]) THEN WordCount(s, i + 1)
    ELSE 1 + WordCount(s, RunEnd(s, i, {c \in Range(s) : ~IsSpace(c)}))

\* The concatenation of a sequence of texts.
RECURSIVE Concat(_)
Concat(ss) == IF ss = <<>> THEN <<>> ELSE Head(ss) \o Concat(Tail(ss))

---------------------------------------------------------------------------
(* yaml.dump and yaml.safe_load, as save_metadata, list_chapters and       *)
(* generate_audio use them: mappings and lists of strings and integers,    *)
(* in block style.  A scalar is written as the text the emitter puts in    *)
(* the file, and read back from that text.  Of the implicit types of a     *)
(* plain scalar the model resolves null, bool, int (decimal and octal)     *)
(* and float (digits with a point).                                        *)

\* The values safe_load constructs.
PyStr(t) == [type |-> "str", text |-> t, num |-> 0, neg |-> FALSE]

PyInt(n) == [type |-> "int", text |-> <<>>, num |-> n, neg |-> FALSE]

PyNegInt(n) == [type |-> "int", text |-> <<>>, num |-> n, neg |-> TRUE]

PyBool(b) ==
    [type |-> "bool", text |-> <<>>, num |-> IF b THEN 1 ELSE 0, neg |-> FALSE]

PyFloat(t) == [type |-> "float", text |-> t, num |-> 0, neg |-> FALSE]

PyNone == [type |-> "none", text |-> <<>>, num |-> 0, neg |-> FALSE]

\* The plain scalars of tag:yaml.org,2002:null (the empty one apart).
YamlNulls ==
    {<<"~">>,
     <<"n", "u", "l", "l">>,
     <<"N", "u", "l", "l">>,
     <<"N", "U", "L", "L">>}

\* The plain scalars of tag:yaml.org,2002:bool that are true.
YamlTrues ==
    {<<"y", "e", "s">>,
     <<"Y", "e", "s">>,
     <<"Y", "E", "S">>,
     <<"t", "r", "u", "e">>,
     <<"T", "r", "u", "e">>,
     <<"T", "R", "U", "E">>,
     <<"o", "n">>,
     <<"O", "n">>,
     <<"O", "N">>}

\* The plain scalars of tag:yaml.org,2002:bool that are false.
YamlFalses ==
    {<<"n", "o">>,
     <<"N", "o">>,
     <<"N", "O">>,
     <<"f", "a", "l", "s", "e">>,
     <<"F", "a", "l", "s", "e">>,
     <<"F", "A", "L", "S", "E">>,
     <<"o", "f", "f">>,
     <<"O", "f", "f">>,
     <<"O", "F", "F">>}

\* t without a leading sign.
Unsigned(t) == IF t # <<>> /\ Head(t) \in {"-", "+"} THEN Tail(t) ELSE t

\* [-+]?0[0-7_]+ | [-+]?(?:0|[1-9][0-9_]*)
IsYamlInt(t) ==
    LET b == Unsigned(t)
    IN  /\ b # <<>>
        /\ \/ b = <<"0">>
           \/ /\ b[1] \in Digits \ {"0"}
              /\ \A i \in 2..Len(b) : b[i] \in Digits \cup {"_"}
           \/ /\ b[1] = "0" /\ Len(b) >= 2
              /\ \A i \in 2..Len(b) : b[i] \in (Digits \ {"8", "9"}) \cup {"_"}

\* [-+]?[0-9][0-9_]*\.[0-9_]* | \.[0-9][0-9_]*
IsYamlFloat(t) ==
    \/ LET b == Unsigned(t)
       IN  \E k \in DOMAIN b :
               /\ b[k] = "." /\ k >= 2
               /\ b[1] \in Digits
               /\ \A i \in 2..(k - 1) : b[i] \in Digits \cup {"_"}
               /\ \A i \in (k + 1)..Len(b) : b[i] \in Digits \cup {"_"}
    \/ /\ Len(t) >= 2 /\ t[1] = "." /\ t[2] \in Digits
       /\ \A i \in 3..Len(t) : t[i] \in Digits \cup {"_"}

\* The tag the resolver gives a plain scalar: the patterns filed under the
\* scalar's first character are tried in turn.
YamlResolve(t) ==
    IF t = <<>> THEN "null"
    ELSE IF t[1] \in {"~", "n", "N"} /\ t \in YamlNulls THEN "null"
    ELSE IF /\ t[1] \in {"y", "Y", "n", "N", "t", "T", "f", "F", "o", "O"}
            /\ (t \in YamlTrues \/ t \in YamlFalses)
         THEN "bool"
    ELSE IF (IsDigit(t[1]) \/ t[1] \in {"-", "+"}) /\ IsYamlInt(t) THEN "int"
    ELSE IF (IsDigit(t[1]) \/ t[1] \in {"-", "+", "."}) /\ IsYamlFloat(t)
         THEN "float"
    ELSE "str"

\* The value of one decimal digit.
DigitOf(c) == (CHOOSE i \in DOMAIN DigitChars : DigitChars[i] = c) - 1

\* int(digits, base).
RECURSIVE IntOfDigits(_, _)
IntOfDigits(d, base) ==
    IF d = <<>> THEN 0
    ELSE IntOfDigits(SubSeq(d, 1, Len(d) - 1), base) * base + DigitOf(d[Len(d)])

\* construct_yaml_int: the underscores go, then the sign, then base 8
\* after a leading 0 and base 10 otherwise.
YamlConstructInt(t) ==
    LET IsDigitChar(c) == c \in Digits
        d == SelectSeq(Unsigned(t), IsDigitChar)
        n == IF d = <<"0">> THEN 0
             ELSE IF d[1] = "0" THEN IntOfDigits(Tail(d), 8)
             ELSE IntOfDigits(d, 10)
    IN  IF Head(t) = "-" /\ n # 0 THEN PyNegInt(n) ELSE PyInt(n)

\* The characters a plain scalar may not begin with (the backquote, which
\* no text of the model holds, apart).
YamlIndicators ==
    {"#", ",", "[", "]", "{", "}", "&", "*", "!", "|", ">", "'", "\"", "%",
     "@"}

\* str.isprintable for the emitter: the characters written as they are.
IsYamlPrintable(c) == c # "\t"

\* Whether analyze_scalar allows the plain style in a block collection.
YamlPlainAllowed(t) ==
    /\ t # <<>>
    /\ \A i \in DOMAIN t : t[i] # "\n" /\ IsYamlPrintable(t[i])
    /\ t[1] # " " /\ t[Len(t)] # " "
    /\ t[1] \notin YamlIndicators
    /\ ~(Len(t) >= 3
          /\ SubSeq(t, 1, 3) \in {<<"-", "-", "-">>, <<".", ".", ".">>})
    /\ ~(t[1] \in {"?", ":", "-"} /\ (Len(t) = 1 \/ t[2] = " "))
    /\ \A i \in DOMAIN t :
           /\ ~(t[i] = ":" /\ (i = Len(t) \/ t[i + 1] = " "))
           /\ ~(t[i] = "#" /\ i > 1 /\ t[i - 1] = " ")

\* Whether analyze_scalar allows the single-quoted style: no character to
\* escape and no space next to a line break.
YamlSingleAllowed(t) ==
    /\ \A i \in DOMAIN t : IsYamlPrintable(t[i])
    /\ \A i \in 1..(Len(t) - 1) :
           ~(t[i] = " " /\ t[i + 1] = "\n") /\ ~(t[i] = "\n" /\ t[i + 1] = " ")

\* The inside of a single-quoted scalar, written from place i: a quote is
\* doubled and a run of line breaks is written with one break more.
RECURSIVE SingleQuotedBody(_, _)
SingleQuotedBody(t, i) ==
    IF i > Len(t) THEN <<>>
    ELSE (IF t[i] = "'" THEN <<"'", "'">>
          ELSE IF t[i] = "\n" /\ (i = 1 \/ t[i - 1] # "\n") THEN <<"\n", "\n">>
          ELSE <<t[i]>>)
         \o SingleQuotedBody(t, i + 1)

\* The inside of a double-quoted scalar: escapes for the quote, the
\* backslash, the tab and the line break.
RECURSIVE DoubleQuotedBody(_)
DoubleQuotedBody(t) ==
    IF t = <<>> THEN <<>>
    ELSE (IF Head(t) = "\"" THEN <<"\\", "\"">>
          ELSE IF Head(t) = "\\" THEN <<"\\", "\\">>
          ELSE IF Head(t) = "\t" THEN <<"\\", "t">>
          ELSE IF Head(t) = "\n" THEN <<"\\", "n">>
          ELSE <<Head(t)>>)
         \o DoubleQuotedBody(Tail(t))

\* A dump that writes every string in the plain style.
YamlDumpStr_AlwaysPlain(t) == t

\* yaml.dump of a str: plain when the style is allowed and the text would
\* be read back as a str, else single-quoted, else double-quoted.
YamlDumpStr(t) ==
    IF YamlPlainAllowed(t) /\ YamlResolve(t) = "str" THEN t
    ELSE IF YamlSingleAllowed(t) THEN <<"'">> \o SingleQuotedBody(t, 1) \o <<"'">>
    ELSE <<"\"">> \o DoubleQuotedBody(t) \o <<"\"">>

\* yaml.dump of an int.
YamlDumpInt(n) == ToDigits(n)

\* The text of a single-quoted scalar from its inside, read from place i:
\* '' is a quote, one line break is a space, and of more line breaks one
\* goes.
RECURSIVE SingleQuotedText(_, _)
SingleQuotedText(b, i) ==
    IF i > Len(b) THEN <<>>
    ELSE IF b[i] = "'" THEN <<"'">> \o SingleQuotedText(b, i + 2)
    ELSE IF b[i] = "\n"
         THEN LET e == RunEnd(b, i, {"\n"})
              IN  (IF e - i = 1 THEN <<" ">>
                   ELSE [k \in 1..(e - i - 1) |-> "\n"])
                  \o SingleQuotedText(b, e)
    ELSE <<b[i]>> \o SingleQuotedText(b, i + 1)

\* The text of a double-quoted scalar from its inside, read from place i.
RECURSIVE DoubleQuotedText(_, _)
DoubleQuotedText(b, i) ==
    IF i > Len(b) THEN <<>>
    ELSE IF b[i] = "\\" /\ i < Len(b)
         THEN (IF b[i + 1] = "t" THEN <<"\t">>
               ELSE IF b[i + 1] = "n" THEN <<"\n">>
               ELSE <<b[i + 1]>>)
              \o DoubleQuotedText(b, i + 2)
    ELSE <<b[i]>> \o DoubleQuotedText(b, i + 1)

\* yaml.safe_load of a scalar: a quoted one is a str, a plain one what the
\* resolver makes of it.
YamlLoadScalar(e) ==
    IF e # <<>> /\ Head(e) = "'"
    THEN PyStr(SingleQuotedText(SubSeq(e, 2, Len(e) - 1), 1))
    ELSE IF e # <<>> /\ Head(e) = "\""
    THEN PyStr(DoubleQuotedText(SubSeq(e, 2, Len(e) - 1), 1))
    ELSE LET tag == YamlResolve(e)
         IN  IF tag = "null" THEN PyNone
             ELSE IF tag = "bool" THEN PyBool(e \in YamlTrues)
             ELSE IF tag = "int" THEN YamlConstructInt(e)
             ELSE IF tag = "float" THEN PyFloat(e)
             ELSE PyStr(e)

---------------------------------------------------------------------------
(* BookProcessor.extract_epub_content.                                     *)
(*                                                                         *)
(* An EPUB is what read_epub yields: the Dublin Core metadata (field ->    *)
(* list of values) and the items of get_items(), in the container's order. *)
(* An item has a type and, for a document, the elements of its markup in   *)
(* document order, each a tag and its text.                                *)

\* re.sub(r"[^\w\s-]", "", title).
RECURSIVE RemoveNonWord(_)
RemoveNonWord(s) ==
    IF s = <<>> THEN <<>>
    ELSE IF IsWord(Head(s)) \/ IsSpace(Head(s)) \/ Head(s) = "-"
         THEN <<Head(s)>> \o RemoveNonWord(Tail(s))
         ELSE RemoveNonWord(Tail(s))

\* re.sub(r"[-\s]+", "-", clean_title).
RECURSIVE HyphenateRuns(_, _)
HyphenateRuns(s, i) ==
    IF i > Len(s) THEN <<>>
    ELSE IF s[i] \in Whitespace \cup {"-"}
         THEN <<"-">> \o HyphenateRuns(s, RunEnd(s, i, Whitespace \cup {"-"}))
         ELSE <<s[i]>> \o HyphenateRuns(s, i + 1)

\* soup.get_text(): the text nodes of the document, concatenated.
GetText(item) == Concat([i \in DOMAIN item.elems |-> item.elems[i].text])

TitleTags == {"h1", "h2", "h3", "title"}

\* soup.find(["h1", "h2", "h3", "title"]): the index of the first such
\* element in document order, or 0 (None).
FindTitleElem(item) ==
    IF \E i \in DOMAIN item.elems : item.elems[i].tag \in TitleTags
    THEN CHOOSE i \in DOMAIN item.elems :
             /\ item.elems[i].tag \in TitleTags
             /\ \A j \in 1..(i - 1) : item.elems[j].tag \notin TitleTags
    ELSE 0

\* f"Chapter {chapter_num}".
DefaultTitle(num) == <<"C", "h", "a", "p", "t", "e", "r", " ">> \o ToDigits(num)

\* The chapter title: a found element counts even when its text is empty
\* (a Tag is truthy).
ChapterTitle(item, num) ==
    LET e == FindTitleElem(item)
    IN  IF e # 0 THEN Strip(item.elems[e].text) ELSE DefaultTitle(num)

\* A filename made of the title alone.
ChapterFilename_NoNumber(title, num) ==
    Lower(HyphenateRuns(RemoveNonWord(title), 1))

\* A filename whose title part is not lower-cased.
ChapterFilename_NoLower(title, num) ==
    ZeroPad(num, 2) \o <<"-">> \o HyphenateRuns(RemoveNonWord(title), 1)

\* f"{chapter_num:02d}-{clean_title.lower()}".
ChapterFilename(title, num) ==
    ZeroPad(num, 2) \o <<"-">> \o Lower(HyphenateRuns(RemoveNonWord(title), 1))

\* The dict appended for a unit that is kept.
MakeChapter(item, num) ==
    LET text  == GetText(item)
        title == ChapterTitle(item, num)
    IN  [number     |-> num,
         title      |-> title,
         filename   |-> ChapterFilename(title, num),
         content    |-> _clean_text(text),
         word_count |-> WordCount(text, 1)]

\* Whether the loop body skips the item: not a document, or no text but
\* whitespace.
Skipped(item) == item.type # "document" \/ Strip(GetText(item)) = <<>>

\* A loop body that lets a skipped unit use up a number.
ExtractStep_CountSkipped(chs, num, item) ==
    IF item.type # "document" THEN [chapters |-> chs, chapter_num |-> num]
    ELSE IF Skipped(item) THEN [chapters |-> chs, chapter_num |-> num + 1]
    ELSE [chapters |-> Append(chs, MakeChapter(item, num)),
          chapter_num |-> num + 1]

\* One pass of the for loop: the list and the counter after it.
ExtractStep(chs, num, item) ==
    IF Skipped(item) THEN [chapters |-> chs, chapter_num |-> num]
    ELSE [chapters |-> Append(chs, MakeChapter(item, num)),
          chapter_num |-> num + 1]

\* book.get_metadata("DC", field)[0][0] if there is one, else the default.
MetaField(b, field, default) ==
    IF b.meta[field] # <<>> THEN b.meta[field][1] ELSE default

\* "Unknown".
Unknown == <<"U", "n", "k", "n", "o", "w", "n">>

ExtractMetadata(b) ==
    [title       |-> MetaField(b, "title", Unknown),
     author      |-> MetaField(b, "creator", Unknown),
     language    |-> MetaField(b, "language", <<"e", "n">>),
     publisher   |-> MetaField(b, "publisher", Unknown),
     description |-> MetaField(b, "description", <<>>)]

NoMetadata == [title |-> <<>>, author |-> <<>>, language |-> <<>>,
               publisher |-> <<>>, description |-> <<>>]

\* The whole loop over items[i..], as extract_epub_content runs it.
RECURSIVE ExtractLoop(_, _, _, _)
ExtractLoop(items, i, chs, num) ==
    IF i > Len(items) THEN chs
    ELSE LET r == ExtractStep(chs, num, items[i])
         IN  ExtractLoop(items, i + 1, r.chapters, r.chapter_num)

---------------------------------------------------------------------------
(* The EPUBs of the model.                                                 *)

Elem(tag, text) == [tag |-> tag, text |-> text]

\* An image: not an ITEM_DOCUMENT.
ItemImage == [type |-> "image", elems |-> <<>>]

\* A document with no text at all.
ItemEmpty == [type |-> "document", elems |-> <<>>]

\* A document with whitespace only.
ItemBlank == [type |-> "document", elems |-> <<Elem("p", <<" ", "\n">>)>>]

\* A document with a heading and a paragraph.
ItemHeaded ==
    [type |-> "document",
     elems |-> <<Elem("h1", <<" ", "A", " ", "b", "!">>),
                 Elem("p", <<"\n", "c", " ", " ", "d", "\n">>)>>]

\* A document with no heading.
ItemPlain == [type |-> "document", elems |-> <<Elem("p", <<"x", "\n", "y">>)>>]

\* A document whose heading is empty.
ItemEmptyHeading ==
    [type |-> "document",
     elems |-> <<Elem("h2", <<>>), Elem("p", <<"z">>)>>]

\* A document with a title element after a paragraph, and a second heading.
ItemTitled ==
    [type |-> "document",
     elems |-> <<Elem("p", <<"q", " ">>), Elem("title", <<"A", "_", "b">>),
                 Elem("h3", <<"w">>)>>]

Items == {ItemImage, ItemEmpty, ItemBlank, ItemHeaded, ItemPlain,
          ItemEmptyHeading, ItemTitled}

MetaFull ==
    [title       |-> <<<<"D", "u", "n", "e">>>>,
     creator     |-> <<<<"F", ".", " ", "H">>, <<"O", "t", "h", "e", "r">>>>,
     language    |-> <<<<"f", "r">>>>,
     publisher   |-> <<<<"A", "c", "e">>>>,
     description |-> <<<<"S", "a", "n", "d", ":", " ", "a", " ", "#", "1">>>>]

\* Metadata whose texts read as other things than strings in YAML.
MetaOdd ==
    [title       |-> <<<<"1", "9", "8", "4">>>>,
     creator     |-> <<<<"N", "o">>>>,
     language    |-> <<<<"~">>>>,
     publisher   |-> <<<<"0", "1", "7">>>>,
     description |-> <<<<"i", "t", "'", "s", "\n", "1", ".", "5">>>>]

MetaNone == [title |-> <<>>, creator |-> <<>>, language |-> <<>>,
             publisher |-> <<>>, description |-> <<>>]

Epubs == [readable : BOOLEAN, meta : {MetaFull, MetaNone},
          items : SeqsUpTo(Items, MaxItems)]

NoBook == [readable |-> FALSE, meta |-> MetaNone, items |-> <<>>]

---------------------------------------------------------------------------
(* The book project on disk: create_book_structure, save_metadata,         *)
(* save_chapters.  A directory is the sequence of its path's parts.        *)

\* BookProcessor.base_path.
BasePath == <<"books">>

\* The dict structure of create_book_structure.
BookStructure(slug) ==
    LET book_dir == BasePath \o <<slug>>
    IN  [root       |-> book_dir,
         source     |-> book_dir \o <<"source">>,
         content    |-> book_dir \o <<"content">>,
         chapters   |-> book_dir \o <<"content", "chapters">>,
         text       |-> book_dir \o <<"content", "text">>,
         audio      |-> book_dir \o <<"audio">>,
         kokoro     |-> book_dir \o <<"audio", "kokoro", "chapters">>,
         processing |-> book_dir \o <<"processing">>,
         logs       |-> book_dir \o <<"processing", "logs">>,
         temp       |-> book_dir \o <<"processing", "temp">>]

\* path.mkdir(parents=True, exist_ok=True): the path and all its parents.
MkdirParents(dirs, path) == dirs \cup {SubSeq(path, 1, k) : k \in 1..Len(path)}

\* A structure made under another directory than books/{slug}.
CreateBookStructure_WrongRoot(dirs, slug) ==
    LET st == BookStructure(slug \o <<"-">>)
    IN  dirs \cup {BasePath}
             \cup UNION {MkdirParents({}, st[k]) : k \in DOMAIN st}

\* The directories after BookProcessor() and create_book_structure(slug).
CreateBookStructure(dirs, slug) ==
    LET st == BookStructure(slug)
    IN  dirs \cup {BasePath}
             \cup UNION {MkdirParents({}, st[k]) : k \in DOMAIN st}

\* Whether Path.mkdir(exist_ok=True) can make path: its parent must exist
\* (the working directory always does).
CanMkdir(dirs, path) ==
    Len(path) <= 1 \/ SubSeq(path, 1, Len(path) - 1) \in dirs

\* A toc.yml that does not exist.
NoFile == [exists |-> FALSE, chapters |-> <<>>]

\* A metadata.yml that does not exist.
NoMetadataFile == [exists |-> FALSE, fields |-> <<>>]

\* What save_metadata dumps to metadata.yml: each key of the dict with its
\* value as yaml.dump writes it.
MetadataFileOf(md) ==
    [exists |-> TRUE,
     fields |-> [k \in DOMAIN md |-> YamlDumpStr(md[k])]]

\* What save_metadata dumps to toc.yml: each chapter but its content.
TocOf(chs) ==
    [exists   |-> TRUE,
     chapters |-> [i \in DOMAIN chs |->
                      [number     |-> YamlDumpInt(chs[i].number),
                       title      |-> YamlDumpStr(chs[i].title),
                       filename   |-> YamlDumpStr(chs[i].filename),
                       word_count |-> YamlDumpInt(chs[i].word_count)]]]

\* yaml.safe_load of metadata.yml.
YamlLoadMetadata(f) == [k \in DOMAIN f.fields |-> YamlLoadScalar(f.fields[k])]

\* yaml.safe_load of the entries of toc.yml, one after another.
RECURSIVE YamlLoadEntries(_)
YamlLoadEntries(es) ==
    IF es = <<>> THEN <<>>
    ELSE <<[number     |-> YamlLoadScalar(Head(es).number),
            title      |-> YamlLoadScalar(Head(es).title),
            filename   |-> YamlLoadScalar(Head(es).filename),
            word_count |-> YamlLoadScalar(Head(es).word_count)]>>
         \o YamlLoadEntries(Tail(es))

\* yaml.safe_load of toc.yml: toc["chapters"].
YamlLoadToc(f) == YamlLoadEntries(f.chapters)

\* A loaded value as the commands use it: an int as a number, a str as
\* its text.
Native(v) == IF v.type = "int" THEN v.num ELSE v.text

\* The loaded entries as the commands use them.
RECURSIVE NativeEntries(_)
NativeEntries(toc) ==
    IF toc = <<>> THEN <<>>
    ELSE <<[number     |-> Native(Head(toc).number),
            title      |-> Native(Head(toc).title),
            filename   |-> Native(Head(toc).filename),
            word_count |-> Native(Head(toc).word_count)]>>
         \o NativeEntries(Tail(toc))

\* toc["chapters"] as generate_audio and list_chapters walk it.
LoadedChapters(f) == NativeEntries(YamlLoadToc(f))

\* What save_chapters writes to a chapter's file.
ChapterFileText(ch) == <<"#", " ">> \o ch.title \o <<"\n", "\n">> \o ch.content

\* f after a write of data under key k (a new file, or an old one replaced).
WriteFile(f, k, data) ==
    [x \in DOMAIN f \cup {k} |-> IF x = k THEN data ELSE f[x]]

\* A save_chapters that leaves a file that exists as it is.
RECURSIVE SaveChapters_KeepExisting(_, _, _)
SaveChapters_KeepExisting(files, chs, i) ==
    IF i > Len(chs) THEN files
    ELSE SaveChapters_KeepExisting(
             IF chs[i].filename \in DOMAIN files THEN files
             ELSE WriteFile(files, chs[i].filename, ChapterFileText(chs[i])),
             chs, i + 1)

\* save_chapters: one write per chapter, in order, each replacing a file of
\* the same name.
RECURSIVE SaveChapters(_, _, _)
SaveChapters(files, chs, i) ==
    IF i > Len(chs) THEN files
    ELSE SaveChapters(WriteFile(files, chs[i].filename, ChapterFileText(chs[i])),
                      chs, i + 1)

---------------------------------------------------------------------------
(* tts_utils.py: TTSManager.                                               *)
(*                                                                         *)
(* The engine is a black box: a call yields a finite stream of segments    *)
(* and may raise while the stream is consumed.  A segment is modelled by   *)
(* its audio buffer, a sequence of samples (gs and ps only reach the       *)
(* console).                                                               *)

\* The audio buffers the engine yields.
Buffers == {<<1>>, <<2, 3>>}

\* A constructor that prints the failure of KPipeline and goes on.
TTSInit_Swallow(inits, ok) ==
    [inits |-> inits + 1, ready |-> ok, raised |-> FALSE]

\* TTSManager.__init__ after the output directory is made: KPipeline is
\* called once; when it raises, the failure is printed and raised again.
TTSInit(inits, ok) ==
    [inits |-> inits + 1, ready |-> ok, raised |-> ~ok]

\* What a pipeline call does: the segments it yields and whether it raises
\* after them.
EngineOutcomes ==
    [segments : SeqsUpTo(Buffers, MaxSegments), raises : BOOLEAN]

WavSuffix == <<".", "w", "a", "v">>

\* output_dir / name.
FilePath(dir, name) == [dir |-> dir, name |-> name]

\* A segment file numbered from one.
SegmentFilename_OneBased(prefix, i) ==
    prefix \o <<"_">> \o ZeroPad(i + 1, 3) \o WavSuffix

\* f"{filename_prefix}_{i:03d}.wav".
SegmentFilename(prefix, i) == prefix \o <<"_">> \o ZeroPad(i, 3) \o WavSuffix

\* f"{filename_prefix}.wav".
CombinedFilename(prefix) == prefix \o WavSuffix

\* A concatenation that takes the segments last to first.
RECURSIVE Concatenate_Reversed(_)
Concatenate_Reversed(segs) ==
    IF segs = <<>> THEN <<>>
    ELSE Concatenate_Reversed(Tail(segs)) \o Head(segs)

\* np.concatenate(all_audio_segments).
Concatenate(segs) == Concat(segs)

\* The sf.write calls of the for loop over the segments from index i
\* (counted from 0, as enumerate does): one per segment, unless combining.
RECURSIVE SegmentWrites(_, _, _, _, _, _)
SegmentWrites(segs, i, dir, prefix, save_files, combine_segments) ==
    IF i >= Len(segs) THEN <<>>
    ELSE (IF save_files /\ ~combine_segments
          THEN <<[path |-> FilePath(dir, SegmentFilename(prefix, i)),
                  data |-> segs[i + 1]]>>
          ELSE <<>>)
         \o SegmentWrites(segs, i + 1, dir, prefix, save_files, combine_segments)

\* The sf.write call after the loop: the combined file, when asked for and
\* there is a segment.
CombinedWrite(segs, dir, prefix, save_files, combine_segments) ==
    IF save_files /\ combine_segments /\ segs # <<>>
    THEN <<[path |-> FilePath(dir, CombinedFilename(prefix)),
            data |-> Concatenate(segs)]>>
    ELSE <<>>

\* generate_speech on a stream that did not raise: the sf.write calls it
\* makes, in order, and the list audio_files it returns.
GenerateSpeech(segs, dir, prefix, save_files, combine_segments) ==
    LET w == SegmentWrites(segs, 0, dir, prefix, save_files, combine_segments)
             \o CombinedWrite(segs, dir, prefix, save_files, combine_segments)
    IN  [writes      |-> w,
         audio_files |-> [k \in DOMAIN w |-> w[k].path]]

\* The audio files after a sequence of sf.write calls.
RECURSIVE ApplyWrites(_, _)
ApplyWrites(files, w) ==
    IF w = <<>> THEN files
    ELSE ApplyWrites(WriteFile(files, Head(w).path, Head(w).data), Tail(w))

\* The record of a generate_speech call: segments is the list that
\* list(generator) built, which does not exist when the stream raised.
CallRecord(segs, dir, prefix, combine_segments, raised, r) ==
    [made        |-> TRUE,
     raised      |-> raised,
     segments    |-> IF raised THEN <<>> ELSE segs,
     dir         |-> dir,
     prefix      |-> prefix,
     combine     |-> combine_segments,
     audio_files |-> r.audio_files,
     writes      |-> r.writes]

NoCall ==
    [made |-> FALSE, raised |-> FALSE, segments |-> <<>>, dir |-> <<>>,
     prefix |-> <<>>, combine |-> FALSE, audio_files |-> <<>>, writes |-> <<>>]

---------------------------------------------------------------------------
(* book_processor.py: generate_audio.                                      *)

\* chapters_dict: number -> entry, a later entry of the same number winning.
ChaptersDict(toc) ==
    LET nums == {toc[i].number : i \in DOMAIN toc}
    IN  [n \in nums |->
            toc[CHOOSE i \in DOMAIN toc :
                    /\ toc[i].number = n
                    /\ \A j \in DOMAIN toc : toc[j].number = n => j <= i]]

\* A validation that looks at the first requested number only.
InvalidChapters_FirstOnly(requested, dict) ==
    IF requested # <<>> /\ requested[1] \notin DOMAIN dict
    THEN <<requested[1]>> ELSE <<>>

\* [ch for ch in chapters if ch not in chapters_dict].
RECURSIVE InvalidChapters(_, _)
InvalidChapters(requested, dict) ==
    IF requested = <<>> THEN <<>>
    ELSE (IF Head(requested) \notin DOMAIN dict THEN <<Head(requested)>>
          ELSE <<>>)
         \o InvalidChapters(Tail(requested), dict)

\* book_dir / "audio" / model / "chapters".
AudioOutputDir(book_dir, model) == book_dir \o <<"audio", model, "chapters">>

---------------------------------------------------------------------------
(* The book projects generate_audio is run on: what convert leaves for an  *)
(* EPUB, under books/dune.                                                 *)

BookSlug == <<"d", "u", "n", "e">>

BookDir == BasePath \o <<BookSlug>>

\* A path no directory stands at.
MissingDir == BasePath \o <<<<"n", "o", "n", "e">>>>

\* The chapters extract_epub_content returns for the items.
ExtractedChapters(items) == ExtractLoop(items, 1, <<>>, 1)

\* metadata["slug"] = book_slug.
WithSlug(md, slug) ==
    [k \in DOMAIN md \cup {"slug"} |-> IF k = "slug" THEN slug ELSE md[k]]

\* The project convert writes for an EPUB of the items: the directories,
\* the copy of the EPUB, metadata.yml, toc.yml and the chapter files.
ConvertedProject(items) ==
    LET b == [readable |-> TRUE, meta |-> MetaFull, items |-> items]
    IN  [dirs     |-> CreateBookStructure({}, BookSlug),
         source   |-> WriteFile(<<>>, "dune.epub", b),
         metadata |-> MetadataFileOf(WithSlug(ExtractMetadata(b), BookSlug)),
         toc      |-> TocOf(ExtractedChapters(items)),
         chapters |-> SaveChapters(<<>>, ExtractedChapters(items), 1)]

\* A project directory in which convert has written nothing yet.
UnconvertedProject ==
    [dirs     |-> CreateBookStructure({}, BookSlug),
     source   |-> <<>>,
     metadata |-> NoMetadataFile,
     toc      |-> NoFile,
     chapters |-> <<>>]

Projects ==
    {ConvertedProject(<<ItemHeaded, ItemBlank, ItemPlain>>),
     ConvertedProject(<<ItemImage, ItemEmptyHeading>>),
     ConvertedProject(<<ItemBlank>>),
     UnconvertedProject}

\* The chapter numbers a command may name.
RequestNumbers == {1, 2, 99}

Requests == SeqsUpTo(RequestNumbers, MaxRequested) \ {<<>>}

---------------------------------------------------------------------------
(* book_processor.py: convert.                                             *)

\* The book_slug convert works with: the option, or when it is empty the
\* title lower-cased, stripped of what is no word character, space or
\* hyphen, with runs of spaces and hyphens made one hyphen.
ConvertSlug(book_title, book_slug) ==
    IF book_slug # <<>> THEN book_slug
    ELSE HyphenateRuns(RemoveNonWord(Lower(book_title)), 1)

\* A document whose heading reads as a number.
ItemNumbered ==
    [type |-> "document",
     elems |-> <<Elem("h1", <<"7">>), Elem("p", <<"n", " ", "o">>)>>]

\* A document whose heading gives the slug of ItemHeaded's, over another
\* paragraph.
ItemRevised ==
    [type |-> "document",
     elems |-> <<Elem("h1", <<"A", " ", "b">>), Elem("p", <<"e">>)>>]

\* The EPUBs convert is run on: two chapters around a blank unit; three
\* chapters, two of one title; one chapter under the filename of another
\* book's first; no chapter; a chapter of an empty heading; a file read_epub
\* cannot read.
BookTwoChapters ==
    [readable |-> TRUE, meta |-> MetaFull,
     items |-> <<ItemHeaded, ItemBlank, ItemPlain>>]

BookOddTitles ==
    [readable |-> TRUE, meta |-> MetaOdd,
     items |-> <<ItemNumbered, ItemHeaded, ItemHeaded>>]

BookRevised ==
    [readable |-> TRUE, meta |-> MetaFull, items |-> <<ItemRevised>>]

BookNoChapters ==
    [readable |-> TRUE, meta |-> MetaNone,
     items |-> <<ItemBlank, ItemImage, ItemEmpty>>]

BookEmptyHeading ==
    [readable |-> TRUE, meta |-> MetaNone, items |-> <<ItemEmptyHeading>>]

BookBroken == [readable |-> FALSE, meta |-> MetaNone, items |-> <<>>]

ConvertBooks ==
    {BookTwoChapters, BookOddTitles, BookRevised, BookNoChapters,
     BookEmptyHeading, BookBroken}

\* The files epub_path may name outside the project: an EPUB, or nothing.
EpubFiles ==
    {[name |-> "dune.epub", exists |-> TRUE, book |-> b] : b \in ConvertBooks}
        \cup {[name |-> "dune.epub", exists |-> FALSE, book |-> NoBook]}

\* The titles and slugs a command may give; every one names books/dune.
BookTitles == {<<"D", "u", "n", "e">>, <<"D", "u", "n", "e", "!">>}

BookSlugOptions == {<<>>, BookSlug}

NoConvertArgs ==
    [epub |-> [name |-> "", exists |-> FALSE, book |-> NoBook],
     in_place |-> FALSE, book_title |-> <<>>, book_slug |-> <<>>]

NoStructure == [k \in DOMAIN BookStructure(<<>>) |-> <<>>]

\* A project convert and generate_audio have worked on before: the book of
\* two chapters, and the audio of its first chapter.
ExistingProject ==
    LET p == ConvertedProject(BookTwoChapters.items)
        r == GenerateSpeech(<<<<1>>>>, AudioOutputDir(BookDir, "kokoro"),
                            ExtractedChapters(BookTwoChapters.items)[1].filename,
                            TRUE, TRUE)
    IN  [dirs     |-> p.dirs,
         source   |-> p.source,
         metadata |-> p.metadata,
         toc      |-> p.toc,
         chapters |-> p.chapters,
         audio    |-> ApplyWrites(<<>>, r.writes)]

---------------------------------------------------------------------------
(* voice_playground.py: compare.                                           *)

AfHeart == <<"a", "f", "_", "h", "e", "a", "r", "t">>

AfSarah == <<"a", "f", "_", "s", "a", "r", "a", "h">>

AfBella == <<"a", "f", "_", "b", "e", "l", "l", "a">>

\* A voice the engine does not have.
AfNobody == <<"a", "f", "_", "x">>

AVAILABLE_VOICES == <<AfHeart, AfSarah, AfBella>>

\* The rate sf.write is given, which sf.read returns as samplerate.
SampleRate == 24000

\* A validation that looks at the first requested voice only.
InvalidVoices_FirstOnly(voices) ==
    IF voices # <<>> /\ voices[1] \notin Range(AVAILABLE_VOICES)
    THEN <<voices[1]>> ELSE <<>>

\* [v for v in voices_to_test if v not in AVAILABLE_VOICES].
RECURSIVE InvalidVoices(_)
InvalidVoices(voices) ==
    IF voices = <<>> THEN <<>>
    ELSE (IF Head(voices) \notin Range(AVAILABLE_VOICES) THEN <<Head(voices)>>
          ELSE <<>>)
         \o InvalidVoices(Tail(voices))

\* The voices to test: all of them with --all or with no --voice, else the
\* voices named.
VoicesToTest(all_voices, voices) ==
    IF all_voices THEN AVAILABLE_VOICES
    ELSE IF voices # <<>> THEN voices
    ELSE AVAILABLE_VOICES

\* text_path.stem of the text file of the model ("My Text.txt").
TextStem == <<"M", "y", " ", "T", "e", "x", "t">>

\* text_path.stem.replace(" ", "-").lower().
TextSlug(stem) == Lower([i \in DOMAIN stem |-> IF stem[i] = " " THEN "-" ELSE stem[i]])

\* Path(output_dir) / text_slug, output_dir at its default.
SessionDir == <<"voice_comparisons", TextSlug(TextStem)>>

\* f"{text_slug}_{voice}".
VoicePrefix(voice) == TextSlug(TextStem) \o <<"_">> \o voice

\* A quotient of two numbers, kept as the pair.
Ratio(n, d) == [num |-> n, den |-> d]

\* The literal 0 of a failed result.
Zero == Ratio(0, 1)

\* audio_file.stat().st_size of a file sf.write wrote: the WAV header and
\* 16-bit samples (what soundfile writes a .wav as by default).
StatSize(data) == 44 + 2 * Len(data)

\* st_size / (1024 * 1024).
FileSizeMb(data) == Ratio(StatSize(data), 1024 * 1024)

\* len(data) / samplerate / 60, or 0 when sf.read raises.
DurationMinutes(data, read_ok) ==
    IF read_ok THEN Ratio(Len(data), SampleRate * 60) ELSE Zero

\* The entry for a voice whose file was generated.
SuccessResult(voice, path, data, read_ok, generation_time) ==
    [voice           |-> voice,
     file            |-> path.name,
     size_mb         |-> FileSizeMb(data),
     duration_min    |-> DurationMinutes(data, read_ok),
     generation_time |-> generation_time,
     success         |-> TRUE]

\* A failure entry that forgets the time spent.
FailedResult_ZeroTime(voice, generation_time) ==
    [voice           |-> voice,
     file            |-> <<"F", "a", "i", "l", "e", "d">>,
     size_mb         |-> Zero,
     duration_min    |-> Zero,
     generation_time |-> 0,
     success         |-> FALSE]

\* The entry for a voice for which generate_speech returned no file.
FailedResult(voice, generation_time) ==
    [voice           |-> voice,
     file            |-> <<"F", "a", "i", "l", "e", "d">>,
     size_mb         |-> Zero,
     duration_min    |-> Zero,
     generation_time |-> generation_time,
     success         |-> FALSE]

\* The entry the except clause builds.
ErrorResult(voice) ==
    [voice           |-> voice,
     file            |-> <<"E", "r", "r", "o", "r">>,
     size_mb         |-> Zero,
     duration_min    |-> Zero,
     generation_time |-> 0,
     success         |-> FALSE]

\* An except clause that records nothing.
OnException_NoEntry(res, voice) == res

\* The except clause: the error entry is appended.
OnException(res, voice) == Append(res, ErrorResult(voice))

\* The files the argument text_file may name: none, one that cannot be
\* read, one holding whitespace only, one holding text.
NoTextFile == [exists |-> FALSE, readable |-> FALSE, content |-> <<>>]

TextFiles ==
    {NoTextFile,
     [exists |-> TRUE, readable |-> FALSE, content |-> <<>>],
     [exists |-> TRUE, readable |-> TRUE, content |-> <<" ", "\n">>],
     [exists |-> TRUE, readable |-> TRUE, content |-> <<"H", "i", ".", "\n">>]}

\* The voices --voice may name.
VoiceIds == Range(AVAILABLE_VOICES) \cup {AfNobody}

\* The streams the engine yields in a comparison.
CompareStreams == {<<>>, <<<<1>>, <<2, 3>>>>}

\* The seconds a synthesis call may take.
Ticks == {1, 2}

---------------------------------------------------------------------------
(* The normalizer on its own: every text of the bounded set is cleaned.    *)

CleanAlphabet == {"a", "7", " ", "\t", "\n"}

\* "Hello   world\n\n\n\nBye", the scenario of the specification.
ScenarioText ==
    <<"H", "e", "l", "l", "o", " ", " ", " ", "w", "o", "r", "l", "d",
      "\n", "\n", "\n", "\n", "B", "y", "e">>

\* "Hello world\n\nBye", what the specification expects of it.
ScenarioExpected ==
    <<"H", "e", "l", "l", "o", " ", "w", "o", "r", "l", "d",
      "\n", "\n", "B", "y", "e">>

CleanInputs == SeqsUpTo(CleanAlphabet, MaxTextLen) \cup {ScenarioText}

\* _clean_text is not being exercised on its own.
CleanIdle ==
    /\ clean_pc = "off"
    /\ text_in = <<>>
    /\ text_out = <<>>

\* No extraction is running.
ExtractIdle ==
    /\ extract_pc = "off"
    /\ book = NoBook
    /\ item_idx = 0
    /\ chapters = <<>>
    /\ chapter_num = 0
    /\ metadata = NoMetadata

\* An empty file system.
FsEmpty ==
    /\ fs_dirs = {}
    /\ fs_source = <<>>
    /\ fs_metadata = NoMetadataFile
    /\ fs_toc = NoFile
    /\ fs_chapters = <<>>
    /\ fs_audio = <<>>

\* No TTSManager has been constructed.
TtsIdle ==
    /\ tts_inits = 0
    /\ tts_ready = FALSE
    /\ tts_output_dir = <<>>
    /\ synth_calls = <<>>
    /\ write_log = <<>>
    /\ last_call = NoCall

\* No generate_audio command is running.
GenAudioIdle ==
    /\ ga_pc = "off"
    /\ ga_book_path = <<>>
    /\ ga_toc = <<>>
    /\ ga_chapters = <<>>
    /\ ga_model = ""
    /\ ga_combine = FALSE
    /\ ga_idx = 0
    /\ invalid_report = <<>>
    /\ chapter_report = <<>>

\* No convert command is running.
ConvertIdle ==
    /\ cv_pc = "off"
    /\ cv_args = NoConvertArgs
    /\ cv_slug = <<>>
    /\ cv_structure = NoStructure
    /\ cv_metadata = NoMetadata
    /\ cv_chapters = <<>>
    /\ cv_runs = 0

\* No compare command is running.
CompareIdle ==
    /\ cmp_pc = "off"
    /\ cmp_text_file = NoTextFile
    /\ cmp_voices = <<>>
    /\ cmp_all = FALSE
    /\ voices_to_test = <<>>
    /\ invalid_voices = <<>>
    /\ cmp_idx = 0
    /\ results = <<>>
    /\ clock = 0
    /\ start_time = 0

InitClean ==
    /\ clean_pc = "ready"
    /\ text_in \in CleanInputs
    /\ text_out = <<>>
    /\ ExtractIdle
    /\ FsEmpty /\ TtsIdle /\ GenAudioIdle /\ CompareIdle /\ ConvertIdle

CleanText ==
    /\ clean_pc = "ready"
    /\ text_out' = _clean_text(text_in)
    /\ clean_pc' = "done"
    /\ UNCHANGED <<text_in, not_clean_vars>>

NextClean == CleanText

SpecClean == InitClean /\ [][NextClean]_vars

---------------------------------------------------------------------------
(* extract_epub_content on every EPUB of the bounded set.                  *)

InitExtract ==
    /\ extract_pc = "idle"
    /\ book \in Epubs
    /\ item_idx = 0
    /\ chapters = <<>>
    /\ chapter_num = 0
    /\ metadata = NoMetadata
    /\ CleanIdle
    /\ FsEmpty /\ TtsIdle /\ GenAudioIdle /\ CompareIdle /\ ConvertIdle

\* read_epub raises on a file that is no EPUB.
ExtractReadFails ==
    /\ extract_pc = "idle"
    /\ ~book.readable
    /\ extract_pc' = "raised"
    /\ UNCHANGED <<book, item_idx, chapters, chapter_num, metadata,
                   not_extract_vars>>

\* read_epub, the metadata dict, chapters = [], chapter_num = 1.
ExtractBegin ==
    /\ extract_pc = "idle"
    /\ book.readable
    /\ metadata' = ExtractMetadata(book)
    /\ chapters' = <<>>
    /\ chapter_num' = 1
    /\ item_idx' = 1
    /\ extract_pc' = "loop"
    /\ UNCHANGED <<book, not_extract_vars>>

\* One pass of for item in book.get_items().
ExtractItem ==
    /\ extract_pc = "loop"
    /\ item_idx <= Len(book.items)
    /\ LET r == ExtractStep(chapters, chapter_num, book.items[item_idx])
       IN  /\ chapters' = r.chapters
           /\ chapter_num' = r.chapter_num
    /\ item_idx' = item_idx + 1
    /\ UNCHANGED <<extract_pc, book, metadata, not_extract_vars>>

\* return metadata, chapters.
ExtractReturn ==
    /\ extract_pc = "loop"
    /\ item_idx > Len(book.items)
    /\ extract_pc' = "returned"
    /\ UNCHANGED <<book, item_idx, chapters, chapter_num, metadata,
                   not_extract_vars>>

NextExtract ==
    \/ ExtractReadFails
    \/ ExtractBegin
    \/ ExtractItem
    \/ ExtractReturn

SpecExtract == InitExtract /\ [][NextExtract]_vars

---------------------------------------------------------------------------
(* generate_audio on the book projects.                                    *)

InitAudio ==
    /\ \E p \in Projects :
           /\ fs_dirs = p.dirs
           /\ fs_source = p.source
           /\ fs_metadata = p.metadata
           /\ fs_toc = p.toc
           /\ fs_chapters = p.chapters
    /\ fs_audio = <<>>
    /\ TtsIdle
    /\ ga_pc = "idle"
    /\ ga_book_path \in {BookDir, MissingDir}
    /\ ga_toc = <<>>
    /\ ga_chapters \in Requests
    /\ ga_model \in {"kokoro", "other"}
    /\ ga_combine \in BOOLEAN
    /\ ga_idx = 0
    /\ invalid_report = <<>>
    /\ chapter_report = <<>>
    /\ CleanIdle /\ ExtractIdle /\ CompareIdle /\ ConvertIdle

\* The book directory does not exist: a message and typer.Exit(1).
GenAudioNoBook ==
    /\ ga_pc = "idle"
    /\ ga_book_path \notin fs_dirs
    /\ ga_pc' = "exit1"
    /\ UNCHANGED <<ga_book_path, ga_toc, ga_chapters, ga_model, ga_combine,
                   ga_idx, invalid_report, chapter_report, fs_vars, tts_vars,
                   not_audio_vars>>

\* open(toc_path) raises: there is no toc.yml.
GenAudioNoToc ==
    /\ ga_pc = "idle"
    /\ ga_book_path \in fs_dirs
    /\ ~fs_toc.exists
    /\ ga_pc' = "raised"
    /\ UNCHANGED <<ga_book_path, ga_toc, ga_chapters, ga_model, ga_combine,
                   ga_idx, invalid_report, chapter_report, fs_vars, tts_vars,
                   not_audio_vars>>

\* The table of contents is loaded and the requested numbers validated: the
\* invalid ones are printed and the command exits, or the command goes on.
GenAudioValidate ==
    /\ ga_pc = "idle"
    /\ ga_book_path \in fs_dirs
    /\ fs_toc.exists
    /\ LET toc == LoadedChapters(fs_toc)
           invalid_chapters == InvalidChapters(ga_chapters, ChaptersDict(toc))
       IN  /\ ga_toc' = toc
           /\ IF invalid_chapters # <<>>
              THEN /\ invalid_report' = invalid_chapters
                   /\ ga_pc' = "exit1"
              ELSE /\ invalid_report' = <<>>
                   /\ ga_pc' = "validated"
    /\ UNCHANGED <<ga_book_path, ga_chapters, ga_model, ga_combine, ga_idx,
                   chapter_report, fs_vars, tts_vars, not_audio_vars>>

\* TTSManager(output_dir=...): the output directory cannot be made (its
\* parent is missing) and mkdir raises.
GenAudioMkdirFails ==
    /\ ga_pc = "validated"
    /\ ~CanMkdir(fs_dirs, AudioOutputDir(ga_book_path, ga_model))
    /\ ga_pc' = "raised"
    /\ UNCHANGED <<ga_book_path, ga_toc, ga_chapters, ga_model, ga_combine,
                   ga_idx, invalid_report, chapter_report, fs_vars, tts_vars,
                   not_audio_vars>>

\* TTSManager(output_dir=...): the directory is made and KPipeline is
\* called once; it returns, or it raises and __init__ re-raises.
GenAudioInitTTS ==
    /\ ga_pc = "validated"
    /\ CanMkdir(fs_dirs, AudioOutputDir(ga_book_path, ga_model))
    /\ fs_dirs' = fs_dirs \cup {AudioOutputDir(ga_book_path, ga_model)}
    /\ tts_output_dir' = AudioOutputDir(ga_book_path, ga_model)
    /\ \E ok \in BOOLEAN :
           LET r == TTSInit(tts_inits, ok)
           IN  /\ tts_inits' = r.inits
               /\ tts_ready' = r.ready
               /\ ga_pc' = IF r.raised THEN "raised" ELSE "loop"
    /\ ga_idx' = 1
    /\ UNCHANGED <<ga_book_path, ga_toc, ga_chapters, ga_model, ga_combine,
                   invalid_report, chapter_report, fs_source, fs_metadata,
                   fs_toc, fs_chapters,
                   fs_audio, synth_calls, write_log, last_call,
                   not_audio_vars>>

\* One pass of the for loop: the chapter's file is read (open raises when
\* it is missing), generate_speech called on it, and the outcome printed.
\* An exception of the engine is caught neither by generate_speech nor here.
GenAudioChapter ==
    /\ ga_pc = "loop"
    /\ ga_idx <= Len(ga_chapters)
    /\ LET chapter == ChaptersDict(ga_toc)[ga_chapters[ga_idx]]
       IN  IF chapter.filename \notin DOMAIN fs_chapters
           THEN /\ ga_pc' = "raised"
                /\ UNCHANGED <<ga_idx, chapter_report, fs_audio, synth_calls,
                               write_log, last_call>>
           ELSE /\ synth_calls' = Append(synth_calls, ga_chapters[ga_idx])
                /\ \E out \in EngineOutcomes :
                       LET r == IF out.raises
                                THEN [writes |-> <<>>, audio_files |-> <<>>]
                                ELSE GenerateSpeech(out.segments, tts_output_dir,
                                                    chapter.filename, TRUE,
                                                    ga_combine)
                       IN  /\ last_call' =
                                  CallRecord(out.segments, tts_output_dir,
                                             chapter.filename, ga_combine,
                                             out.raises, r)
                           /\ write_log' = write_log \o r.writes
                           /\ fs_audio' = ApplyWrites(fs_audio, r.writes)
                           /\ IF out.raises
                              THEN /\ ga_pc' = "raised"
                                   /\ UNCHANGED <<ga_idx, chapter_report>>
                              ELSE /\ ga_pc' = "loop"
                                   /\ ga_idx' = ga_idx + 1
                                   /\ chapter_report' =
                                          Append(chapter_report,
                                                 IF r.audio_files # <<>>
                                                 THEN "generated" ELSE "failed")
    /\ UNCHANGED <<ga_book_path, ga_toc, ga_chapters, ga_model, ga_combine,
                   invalid_report, fs_dirs, fs_source, fs_metadata, fs_toc,
                   fs_chapters, tts_inits,
                   tts_ready, tts_output_dir, not_audio_vars>>

\* The loop is over: the command ends.
GenAudioDone ==
    /\ ga_pc = "loop"
    /\ ga_idx > Len(ga_chapters)
    /\ ga_pc' = "done"
    /\ UNCHANGED <<ga_book_path, ga_toc, ga_chapters, ga_model, ga_combine,
                   ga_idx, invalid_report, chapter_report, fs_vars, tts_vars,
                   not_audio_vars>>

NextAudio ==
    \/ GenAudioNoBook
    \/ GenAudioNoToc
    \/ GenAudioValidate
    \/ GenAudioMkdirFails
    \/ GenAudioInitTTS
    \/ GenAudioChapter
    \/ GenAudioDone

SpecAudio == InitAudio /\ [][NextAudio]_vars

---------------------------------------------------------------------------
(* compare on every request of the bounded set.                            *)

InitCompare ==
    /\ cmp_pc = "idle"
    /\ cmp_text_file \in TextFiles
    /\ cmp_voices \in SeqsUpTo(VoiceIds, MaxVoices)
    /\ cmp_all \in BOOLEAN
    /\ voices_to_test = <<>>
    /\ invalid_voices = <<>>
    /\ cmp_idx = 0
    /\ results = <<>>
    /\ clock = 0
    /\ start_time = 0
    /\ FsEmpty /\ TtsIdle
    /\ CleanIdle /\ ExtractIdle /\ GenAudioIdle /\ ConvertIdle

\* The text file is missing, cannot be read, or is empty once stripped: a
\* message and typer.Exit(1).
CompareNoText ==
    /\ cmp_pc = "idle"
    /\ \/ ~cmp_text_file.exists
       \/ ~cmp_text_file.readable
       \/ Strip(cmp_text_file.content) = <<>>
    /\ cmp_pc' = "exit1"
    /\ UNCHANGED <<cmp_text_file, cmp_voices, cmp_all, voices_to_test,
                   invalid_voices, cmp_idx, results, clock, start_time,
                   fs_vars, tts_vars, not_compare_vars>>

\* The voices to test are determined; voices named with --voice (and no
\* --all) are validated, the invalid ones printed and the command exits.
CompareSelectVoices ==
    /\ cmp_pc = "idle"
    /\ cmp_text_file.exists
    /\ cmp_text_file.readable
    /\ Strip(cmp_text_file.content) # <<>>
    /\ voices_to_test' = VoicesToTest(cmp_all, cmp_voices)
    /\ IF ~cmp_all /\ cmp_voices # <<>> /\ InvalidVoices(cmp_voices) # <<>>
       THEN /\ invalid_voices' = InvalidVoices(cmp_voices)
            /\ cmp_pc' = "exit1"
       ELSE /\ invalid_voices' = <<>>
            /\ cmp_pc' = "validated"
    /\ UNCHANGED <<cmp_text_file, cmp_voices, cmp_all, cmp_idx, results,
                   clock, start_time, fs_vars, tts_vars, not_compare_vars>>

\* The output directories are made; TTSManager(output_dir=session_dir)
\* calls KPipeline once, which returns or raises; results = [].
CompareInitTTS ==
    /\ cmp_pc = "validated"
    /\ fs_dirs' = fs_dirs \cup {<<SessionDir[1]>>, SessionDir}
    /\ tts_output_dir' = SessionDir
    /\ \E ok \in BOOLEAN :
           LET r == TTSInit(tts_inits, ok)
           IN  /\ tts_inits' = r.inits
               /\ tts_ready' = r.ready
               /\ cmp_pc' = IF r.raised THEN "raised" ELSE "loop"
    /\ results' = <<>>
    /\ cmp_idx' = 1
    /\ UNCHANGED <<cmp_text_file, cmp_voices, cmp_all, voices_to_test,
                   invalid_voices, clock, start_time, fs_source, fs_metadata,
                   fs_toc, fs_chapters, fs_audio, synth_calls, write_log, last_call,
                   not_compare_vars>>

\* One pass of the for loop: generate_speech for the voice, combining, under
\* try/except; the entry for the voice is appended.
CompareVoice ==
    /\ cmp_pc = "loop"
    /\ cmp_idx <= Len(voices_to_test)
    /\ LET voice == voices_to_test[cmp_idx]
       IN  /\ start_time' = clock
           /\ synth_calls' = Append(synth_calls, voice)
           /\ \E segs \in CompareStreams, raises, read_ok \in BOOLEAN, d \in Ticks :
                  LET r == IF raises
                           THEN [writes |-> <<>>, audio_files |-> <<>>]
                           ELSE GenerateSpeech(segs, tts_output_dir,
                                               VoicePrefix(voice), TRUE, TRUE)
                      files == ApplyWrites(fs_audio, r.writes)
                      generation_time == (clock + d) - clock
                  IN  /\ clock' = clock + d
                      /\ last_call' = CallRecord(segs, tts_output_dir,
                                                 VoicePrefix(voice), TRUE,
                                                 raises, r)
                      /\ write_log' = write_log \o r.writes
                      /\ fs_audio' = files
                      /\ results' =
                             IF raises THEN OnException(results, voice)
                             ELSE IF r.audio_files # <<>>
                             THEN Append(results,
                                         SuccessResult(voice, r.audio_files[1],
                                                       files[r.audio_files[1]],
                                                       read_ok, generation_time))
                             ELSE Append(results,
                                         FailedResult(voice, generation_time))
    /\ cmp_idx' = cmp_idx + 1
    /\ UNCHANGED <<cmp_pc, cmp_text_file, cmp_voices, cmp_all, voices_to_test,
                   invalid_voices, fs_dirs, fs_source, fs_metadata, fs_toc,
                   fs_chapters, tts_inits,
                   tts_ready, tts_output_dir, not_compare_vars>>

\* The loop is over: the table is printed and the command ends.
CompareReport ==
    /\ cmp_pc = "loop"
    /\ cmp_idx > Len(voices_to_test)
    /\ cmp_pc' = "done"
    /\ UNCHANGED <<cmp_text_file, cmp_voices, cmp_all, voices_to_test,
                   invalid_voices, cmp_idx, results, clock, start_time,
                   fs_vars, tts_vars, not_compare_vars>>

NextCompare ==
    \/ CompareNoText
    \/ CompareSelectVoices
    \/ CompareInitTTS
    \/ CompareVoice
    \/ CompareReport

SpecCompare == InitCompare /\ [][NextCompare]_vars

---------------------------------------------------------------------------
(* convert, run again and again on the project books/dune, which is new    *)
(* or holds an earlier conversion and its audio.                           *)

InitConvert ==
    /\ cv_pc = "ready"
    /\ cv_args = NoConvertArgs
    /\ cv_slug = <<>>
    /\ cv_structure = NoStructure
    /\ cv_metadata = NoMetadata
    /\ cv_chapters = <<>>
    /\ cv_runs = 0
    /\ \/ FsEmpty
       \/ /\ fs_dirs = ExistingProject.dirs
          /\ fs_source = ExistingProject.source
          /\ fs_metadata = ExistingProject.metadata
          /\ fs_toc = ExistingProject.toc
          /\ fs_chapters = ExistingProject.chapters
          /\ fs_audio = ExistingProject.audio
    /\ CleanIdle /\ ExtractIdle /\ TtsIdle /\ GenAudioIdle /\ CompareIdle

\* A convert command is given: epub_path names a file outside the project
\* or the EPUB already in the project's source directory.  cv_structure
\* keeps what create_book_structure returned last.
ConvertInvoke ==
    /\ cv_pc \in {"ready", "done", "exit1", "raised"}
    /\ cv_runs < MaxRuns
    /\ \E t \in BookTitles, o \in BookSlugOptions :
           \/ \E e \in EpubFiles :
                  cv_args' = [epub |-> e, in_place |-> FALSE,
                              book_title |-> t, book_slug |-> o]
           \/ \E n \in DOMAIN fs_source :
                  cv_args' = [epub |-> [name |-> n, exists |-> TRUE,
                                        book |-> fs_source[n]],
                              in_place |-> TRUE,
                              book_title |-> t, book_slug |-> o]
    /\ cv_pc' = "idle"
    /\ cv_runs' = cv_runs + 1
    /\ cv_slug' = <<>>
    /\ cv_metadata' = NoMetadata
    /\ cv_chapters' = <<>>
    /\ UNCHANGED <<cv_structure, fs_vars, not_convert_vars>>

\* The EPUB file does not exist: a message and typer.Exit(1).
ConvertNoEpub ==
    /\ cv_pc = "idle"
    /\ ~cv_args.epub.exists
    /\ cv_pc' = "exit1"
    /\ UNCHANGED <<cv_args, cv_slug, cv_structure, cv_metadata, cv_chapters,
                   cv_runs, fs_vars, not_convert_vars>>

\* The slug is settled, BookProcessor() makes books/ and
\* create_book_structure the directories of the project.
ConvertCreateStructure ==
    /\ cv_pc = "idle"
    /\ cv_args.epub.exists
    /\ LET book_slug == ConvertSlug(cv_args.book_title, cv_args.book_slug)
       IN  /\ cv_slug' = book_slug
           /\ fs_dirs' = CreateBookStructure(fs_dirs, book_slug)
           /\ cv_structure' = BookStructure(book_slug)
    /\ cv_pc' = "structured"
    /\ UNCHANGED <<cv_args, cv_metadata, cv_chapters, cv_runs, fs_source,
                   fs_metadata, fs_toc, fs_chapters, fs_audio,
                   not_convert_vars>>

\* shutil.copy2 of the EPUB into source/, unless it is that very file.
ConvertCopyEpub ==
    /\ cv_pc = "structured"
    /\ fs_source' = IF cv_args.in_place THEN fs_source
                    ELSE WriteFile(fs_source, cv_args.epub.name,
                                   cv_args.epub.book)
    /\ cv_pc' = "copied"
    /\ UNCHANGED <<cv_args, cv_slug, cv_structure, cv_metadata, cv_chapters,
                   cv_runs, fs_dirs, fs_metadata, fs_toc, fs_chapters,
                   fs_audio, not_convert_vars>>

\* extract_epub_content and metadata["slug"] = book_slug; read_epub raises
\* on a file that is no EPUB, and convert does not catch it.
ConvertExtract ==
    /\ cv_pc = "copied"
    /\ IF cv_args.epub.book.readable
       THEN /\ cv_metadata' =
                   WithSlug(ExtractMetadata(cv_args.epub.book), cv_slug)
            /\ cv_chapters' = ExtractedChapters(cv_args.epub.book.items)
            /\ cv_pc' = "extracted"
       ELSE /\ cv_pc' = "raised"
            /\ UNCHANGED <<cv_metadata, cv_chapters>>
    /\ UNCHANGED <<cv_args, cv_slug, cv_structure, cv_runs, fs_vars,
                   not_convert_vars>>

\* save_metadata: metadata.yml and toc.yml are opened with "w" and dumped.
ConvertSaveMetadata ==
    /\ cv_pc = "extracted"
    /\ fs_metadata' = MetadataFileOf(cv_metadata)
    /\ fs_toc' = TocOf(cv_chapters)
    /\ cv_pc' = "saved"
    /\ UNCHANGED <<cv_args, cv_slug, cv_structure, cv_metadata, cv_chapters,
                   cv_runs, fs_dirs, fs_source, fs_chapters, fs_audio,
                   not_convert_vars>>

\* save_chapters, then the summary "Converted N chapters"; the command
\* ends with status 0.
ConvertSaveChapters ==
    /\ cv_pc = "saved"
    /\ fs_chapters' = SaveChapters(fs_chapters, cv_chapters, 1)
    /\ cv_pc' = "done"
    /\ UNCHANGED <<cv_args, cv_slug, cv_structure, cv_metadata, cv_chapters,
                   cv_runs, fs_dirs, fs_source, fs_metadata, fs_toc,
                   fs_audio, not_convert_vars>>

NextConvert ==
    \/ ConvertInvoke
    \/ ConvertNoEpub
    \/ ConvertCreateStructure
    \/ ConvertCopyEpub
    \/ ConvertExtract
    \/ ConvertSaveMetadata
    \/ ConvertSaveChapters

SpecConvert == InitConvert /\ [][NextConvert]_vars

---------------------------------------------------------------------------
(* The two commands that construct a TTSManager: a run is one              *)
(* generate_audio command or one compare command.                          *)

InitSynthesis == InitAudio \/ InitCompare

NextSynthesis == NextAudio \/ NextCompare

SpecSynthesis == InitSynthesis /\ [][NextSynthesis]_vars

---------------------------------------------------------------------------
(* Claims about compare, checked under SpecCompare.                        *)

\* C2: for a validated list of V voices the loop ends with exactly V
\* entries, the i-th carrying the i-th voice, whichever synthesis calls
\* raise or return no file; a failure for one voice never keeps a later
\* voice from getting its entry.
C2_OneResultPerVoice ==
    /\ cmp_pc = "loop" => Len(results) = cmp_idx - 1
    /\ cmp_pc = "done" => Len(results) = Len(voices_to_test)
    /\ cmp_pc \in {"loop", "done"} =>
           \A i \in 1..Len(results) : results[i].voice = voices_to_test[i]

\* C2's case: the first voice raised, the second returned no file, and the
\* third still got its entry, a success.
C2_Witness ==
    /\ cmp_pc = "done"
    /\ Len(results) = 3
    /\ results[1].file = <<"E", "r", "r", "o", "r">>
    /\ results[2].file = <<"F", "a", "i", "l", "e", "d">>
    /\ results[3].success

\* The entry of the pass of the loop that has just ended.
LastResult == results[Len(results)]

\* A pass of the loop has ended.
PassEnded == cmp_pc \in {"loop", "done"} /\ results # <<>>

\* The seconds the last synthesis call took.
Elapsed == clock - start_time

\* The last pass failed: the call raised or returned no file.
LastFailed == last_call.raised \/ last_call.audio_files = <<>>

\* C3 as stated: on any per-voice failure, the call raising or returning no
\* file, the entry has success = false, size 0, duration 0 and, as its
\* generation_time, the time elapsed since that voice's generation started.
C3_FailureKeepsElapsedTime ==
    (PassEnded /\ LastFailed) =>
        /\ LastResult.success = FALSE
        /\ LastResult.size_mb.num = 0
        /\ LastResult.duration_min.num = 0
        /\ LastResult.generation_time = Elapsed

\* C3 as amended: a failure entry has success = false, size 0 and duration
\* 0; its generation_time is the time elapsed when the call returned no
\* file, and 0 when the call raised.
C3_FailureEntry ==
    (PassEnded /\ LastFailed) =>
        /\ LastResult.success = FALSE
        /\ LastResult.size_mb.num = 0
        /\ LastResult.duration_min.num = 0
        /\ LastResult.generation_time =
               IF last_call.raised THEN 0 ELSE Elapsed

\* C3's case: a call that returned no file after some time, following a
\* call that raised.
C3_Witness ==
    /\ PassEnded
    /\ Len(results) >= 2
    /\ ~results[Len(results) - 1].success
    /\ results[Len(results) - 1].generation_time = 0
    /\ ~last_call.raised
    /\ last_call.audio_files = <<>>
    /\ Elapsed > 0
    /\ LastResult.generation_time = Elapsed

\* A voice named with --voice is not a known voice.
UnknownVoiceRequested ==
    \E i \in DOMAIN cmp_voices :
        \A k \in DOMAIN AVAILABLE_VOICES : cmp_voices[i] # AVAILABLE_VOICES[k]

\* The request has failed with nothing done: no engine, no synthesis call,
\* no audio file, no entry.
FailedUpFront ==
    /\ cmp_pc = "exit1"
    /\ tts_inits = 0
    /\ synth_calls = <<>>
    /\ write_log = <<>>
    /\ fs_audio = <<>>
    /\ results = <<>>

\* C4 as stated: if any requested voice is not in the known set, the whole
\* request fails before the engine is initialised and before any synthesis
\* call or audio write, with no entry for the valid voices.
C4_UnknownVoiceFailsFast ==
    (cmp_pc \notin {"off", "idle"} /\ UnknownVoiceRequested) => FailedUpFront

\* C4 as amended: the same, for a request made without --all.
C4_UnknownVoiceFailsFastWithoutAll ==
    (cmp_pc \notin {"off", "idle"} /\ UnknownVoiceRequested /\ ~cmp_all) =>
        FailedUpFront

\* C4's case: a request naming a known and then an unknown voice, over a
\* text that can be read, has failed.
C4_Witness ==
    /\ cmp_pc = "exit1"
    /\ ~cmp_all
    /\ Len(cmp_voices) = 2
    /\ cmp_voices[1] = AfHeart
    /\ cmp_voices[2] = AfNobody
    /\ invalid_voices = <<AfNobody>>

---------------------------------------------------------------------------
(* Claims about extraction, checked under SpecExtract.                     *)

\* The places of the document units whose plain text holds a character that
\* is not whitespace.
NonEmptyUnits(items) ==
    {i \in DOMAIN items :
        /\ items[i].type = "document"
        /\ \E k \in DOMAIN GetText(items[i]) : ~IsSpace(GetText(items[i])[k])}

\* The place of the k-th such unit, in container order.
KthNonEmpty(items, k) ==
    CHOOSE i \in NonEmptyUnits(items) :
        Cardinality({j \in NonEmptyUnits(items) : j <= i}) = k

\* C1: an EPUB with K document units of non-whitespace text, wherever they
\* stand among empty and non-document units, yields exactly K chapters,
\* numbered 1..K in container order; a skipped unit uses up no number.
C1_ChaptersNumberedDensely ==
    extract_pc = "returned" =>
        /\ Len(chapters) = Cardinality(NonEmptyUnits(book.items))
        /\ \A i \in 1..Len(chapters) :
               /\ chapters[i].number = i
               /\ chapters[i].content =
                      _clean_text(GetText(book.items[KthNonEmpty(book.items, i)]))

\* C1's case: three document units, an empty one standing before a kept
\* one, have yielded two chapters.
C1_Witness ==
    /\ extract_pc = "returned"
    /\ Len(chapters) = 2
    /\ \E i, j \in DOMAIN book.items :
           /\ i < j
           /\ book.items[i] = ItemBlank
           /\ j \in NonEmptyUnits(book.items)

---------------------------------------------------------------------------
(* Claims about generate_audio and generate_speech, checked under          *)
(* SpecAudio.                                                              *)

\* The numbers of the loaded table of contents.
TocNumbers ==
    LET toc == LoadedChapters(fs_toc)
    IN  {toc[i].number : i \in DOMAIN toc}

\* The requested numbers the table of contents lacks, in request order.
AbsentRequested ==
    LET Absent(n) == n \notin TocNumbers
    IN  SelectSeq(ga_chapters, Absent)

\* The table of contents has been loaded and the request validated.
TocChecked ==
    /\ ga_pc \notin {"off", "idle"}
    /\ ga_book_path \in fs_dirs
    /\ fs_toc.exists

\* C5: when a requested chapter number is absent from the table of contents
\* the command fails, reporting exactly the absent numbers in request
\* order, before the engine is initialised and before any synthesis call or
\* audio write; when all are present no validation failure occurs.
C5_InvalidChaptersFailFast ==
    TocChecked =>
        IF AbsentRequested # <<>>
        THEN /\ ga_pc = "exit1"
             /\ invalid_report = AbsentRequested
             /\ tts_inits = 0
             /\ synth_calls = <<>>
             /\ write_log = <<>>
             /\ fs_audio = <<>>
        ELSE /\ ga_pc # "exit1"
             /\ invalid_report = <<>>

\* C5's case: a request naming a present and then an absent chapter failed.
C5_Witness ==
    /\ TocChecked
    /\ ga_pc = "exit1"
    /\ Len(ga_chapters) = 2
    /\ ga_chapters[1] \in TocNumbers
    /\ ga_chapters[2] = 99
    /\ invalid_report = <<99>>

\* The value of a sequence of decimal digits.
RECURSIVE DecimalValue(_)
DecimalValue(d) ==
    IF d = <<>> THEN 0
    ELSE 10 * DecimalValue(SubSeq(d, 1, Len(d) - 1))
         + (CHOOSE k \in 0..9 : DigitChars[k + 1] = d[Len(d)])

\* name is prefix, "_", three digits of value i, ".wav".
IsSegmentName(name, prefix, i) ==
    LET n == Len(prefix)
    IN  /\ Len(name) = n + 8
        /\ SubSeq(name, 1, n) = prefix
        /\ name[n + 1] = "_"
        /\ \A k \in (n + 2)..(n + 4) : name[k] \in Digits
        /\ DecimalValue(SubSeq(name, n + 2, n + 4)) = i
        /\ SubSeq(name, n + 5, n + 8) = <<".", "w", "a", "v">>

\* A generate_speech call has returned.
CallReturned == last_call.made /\ ~last_call.raised

\* C6: for a stream of N segments generate_speech without combining writes
\* and returns exactly N paths, the i-th {prefix}_{i:03d}.wav for i = 0..N-1
\* in segment order; combining, exactly one path when N >= 1; and for N = 0
\* it writes nothing and returns an empty list in both modes, with no error.
C6_FilesPerSegment ==
    CallReturned =>
        LET N == Len(last_call.segments)
        IN  /\ Len(last_call.writes) = Len(last_call.audio_files)
            /\ \A i \in 1..Len(last_call.writes) :
                   last_call.writes[i].path = last_call.audio_files[i]
            /\ ~last_call.combine =>
                   /\ Len(last_call.audio_files) = N
                   /\ \A i \in 1..N :
                          /\ last_call.audio_files[i].dir = last_call.dir
                          /\ IsSegmentName(last_call.audio_files[i].name,
                                           last_call.prefix, i - 1)
                          /\ last_call.writes[i].data = last_call.segments[i]
            /\ (last_call.combine /\ N >= 1) =>
                   Len(last_call.audio_files) = 1
            /\ N = 0 =>
                   /\ last_call.audio_files = <<>>
                   /\ ga_pc # "raised"

\* C6's case: a call without combining has written two segment files.
C6_Witness ==
    /\ CallReturned
    /\ ~last_call.combine
    /\ Len(last_call.segments) = 2
    /\ Len(last_call.audio_files) = 2

\* Where segment i starts in the concatenation of segs.
RECURSIVE Offset(_, _)
Offset(segs, i) ==
    IF i = 1 THEN 0 ELSE Offset(segs, i - 1) + Len(segs[i - 1])

\* C7: combining N >= 1 segments writes the single file {prefix}.wav once,
\* its buffer the segments' buffers in emission order with nothing added,
\* dropped or reordered (its length the sum of theirs), and writes no
\* per-segment file.
C7_CombinedIsConcatenation ==
    (CallReturned /\ last_call.combine /\ Len(last_call.segments) >= 1) =>
        LET segs == last_call.segments
            N    == Len(segs)
        IN  /\ Len(last_call.writes) = 1
            /\ last_call.audio_files = <<last_call.writes[1].path>>
            /\ last_call.writes[1].path.dir = last_call.dir
            /\ last_call.writes[1].path.name =
                   last_call.prefix \o <<".", "w", "a", "v">>
            /\ Len(last_call.writes[1].data) = Offset(segs, N) + Len(segs[N])
            /\ \A i \in 1..N : \A k \in 1..Len(segs[i]) :
                   last_call.writes[1].data[Offset(segs, i) + k] = segs[i][k]
            /\ fs_audio[last_call.writes[1].path] = last_call.writes[1].data

\* C7's case: two different segments have been combined.
C7_Witness ==
    /\ CallReturned
    /\ last_call.combine
    /\ Len(last_call.segments) = 2
    /\ last_call.segments[1] # last_call.segments[2]
    /\ Len(last_call.writes) = 1

\* generate_audio has ended after the engine was initialised.
GenAudioEnded == tts_ready /\ ga_pc \in {"done", "raised"}

\* C8: over a validated list of chapters, when the synthesis call for one
\* chapter yields no segment or raises mid-stream, the failure is reported
\* for that chapter and processing goes on: every later requested chapter
\* still gets its synthesis call.
C8_FailureDoesNotStopLaterChapters ==
    GenAudioEnded => synth_calls = ga_chapters

---------------------------------------------------------------------------
(* Claims about the normalizer, checked under SpecClean.                   *)

AllSpace(s) == \A i \in 1..Len(s) : IsSpace(s[i])

\* s holds two blank lines or more between two pieces of content: a
\* whitespace run with content on both sides and three newlines or more.
HasBlankLines(s) ==
    \E i \in 1..Len(s) :
        /\ ~IsSpace(s[i])
        /\ LET m == RunEnd(s, i + 1, Whitespace)
           IN  /\ m <= Len(s)
               /\ Cardinality({j \in (i + 1)..(m - 1) : s[j] = "\n"}) >= 3

HasParagraphBreak(s) ==
    \E i \in 1..(Len(s) - 1) : s[i] = "\n" /\ s[i + 1] = "\n"

\* C9: the normalizer re-introduces a paragraph break (a double newline)
\* wherever several consecutive blank lines stood in the input, and in
\* particular turns "Hello   world\n\n\n\nBye" into "Hello world\n\nBye".
C9_ParagraphBreaksReintroduced ==
    clean_pc = "done" =>
        /\ text_in = ScenarioText => text_out = ScenarioExpected
        /\ HasBlankLines(text_in) => HasParagraphBreak(text_out)

\* C10: the normalizer returns the empty text exactly for the inputs that
\* hold only whitespace (or nothing); for any other input the result is not
\* empty and neither starts nor ends with whitespace.
C10_EmptyIffBlank ==
    clean_pc = "done" =>
        /\ (text_out = <<>>) <=> AllSpace(text_in)
        /\ ~AllSpace(text_in) =>
               /\ ~IsSpace(text_out[1])
               /\ ~IsSpace(text_out[Len(text_out)])

\* C10's case: content wrapped in whitespace on both sides has been cleaned.
C10_Witness ==
    /\ clean_pc = "done"
    /\ ~AllSpace(text_in)
    /\ IsSpace(text_in[1])
    /\ IsSpace(text_in[Len(text_in)])
    /\ text_out # <<>>


---------------------------------------------------------------------------
(* Claims about the filenames of chapters, checked under SpecExtract.      *)

\* The place of the first hyphen of a text, or 0.
FirstHyphen(f) ==
    IF \E i \in DOMAIN f : f[i] = "-"
    THEN CHOOSE i \in DOMAIN f :
             f[i] = "-" /\ \A j \in 1..(i - 1) : f[j] # "-"
    ELSE 0

\* ^\d{2}-[a-z0-9-]*$
MatchesTwoDigitSlug(f) ==
    /\ Len(f) >= 3
    /\ IsDigit(f[1]) /\ IsDigit(f[2]) /\ f[3] = "-"
    /\ \A i \in 4..Len(f) : f[i] \in Range(LowerLetters) \cup Digits \cup {"-"}

\* The number in decimal, zero-padded to two digits or longer, a hyphen,
\* then only lower-case letters, digits, underscores and hyphens.
MatchesNumberedSlug(f, num) ==
    LET h == FirstHyphen(f)
    IN  /\ h >= 3
        /\ \A i \in 1..(h - 1) : IsDigit(f[i])
        /\ DecimalValue(SubSeq(f, 1, h - 1)) = num
        /\ (num < 100 => h = 3)
        /\ \A i \in (h + 1)..Len(f) :
               f[i] \in Range(LowerLetters) \cup Digits \cup {"-", "_"}

\* C11 as stated: the filename of every chapter produced by extraction
\* matches ^\d{2}-[a-z0-9-]*$.
C11_FilenameTwoDigitsLowerAlnum ==
    \A i \in DOMAIN chapters : MatchesTwoDigitSlug(chapters[i].filename)

\* C11 as amended: the filename of every chapter produced by extraction is
\* the chapter's number zero-padded to two digits, a hyphen, then only
\* lower-case letters, digits, hyphens and underscores; chapters of the same
\* title and number have the same filename.
C11_FilenameNumberedSlug ==
    /\ \A i \in DOMAIN chapters :
           MatchesNumberedSlug(chapters[i].filename, chapters[i].number)
    /\ \A i, j \in DOMAIN chapters :
           (chapters[i].title = chapters[j].title
            /\ chapters[i].number = chapters[j].number)
               => chapters[i].filename = chapters[j].filename

\* C11's case: an extraction has returned a chapter whose title holds an
\* upper-case letter, a space and a character that is neither a word
\* character nor a hyphen, and a chapter whose title holds an underscore.
C11_Witness ==
    /\ extract_pc = "returned"
    /\ \E i \in DOMAIN chapters :
           /\ "!" \in Range(chapters[i].title)
           /\ " " \in Range(chapters[i].title)
           /\ Range(chapters[i].title) \cap Range(UpperLetters) # {}
    /\ \E i \in DOMAIN chapters : "_" \in Range(chapters[i].title)

\* C15: no two chapters of one extraction have the same filename, so
\* save_chapters writes one file per chapter, each holding its own
\* chapter's heading and content.
C15_FilenamesDistinct ==
    /\ \A i, j \in DOMAIN chapters :
           i # j => chapters[i].filename # chapters[j].filename
    /\ LET files == SaveChapters(<<>>, chapters, 1)
       IN  /\ Cardinality(DOMAIN files) = Len(chapters)
           /\ \A i \in DOMAIN chapters :
                  files[chapters[i].filename] = ChapterFileText(chapters[i])

\* C15's case: an extraction has returned two chapters of the same title.
C15_Witness ==
    /\ extract_pc = "returned"
    /\ \E i, j \in DOMAIN chapters :
           /\ i # j
           /\ chapters[i].title = chapters[j].title
           /\ chapters[i].content = chapters[j].content

\* The places of the h1, h2, h3 and title elements of a unit.
HeadingPlaces(unit) ==
    {k \in DOMAIN unit.elems : unit.elems[k].tag \in {"h1", "h2", "h3", "title"}}

\* The text of the first of them, without the whitespace around it.
FirstHeadingText(unit) ==
    LET k == CHOOSE k \in HeadingPlaces(unit) :
                 \A j \in HeadingPlaces(unit) : k <= j
    IN  Strip(unit.elems[k].text)

\* Whether a title can be discovered in the unit: it has such an element,
\* and the first has text.
TitleDiscoverable(unit) ==
    HeadingPlaces(unit) # {} /\ FirstHeadingText(unit) # <<>>

\* C17: the title of every extracted chapter is the text of the first
\* h1/h2/h3/title element of its unit when a title is discoverable there,
\* and otherwise "Chapter n" with n the chapter's own number; no chapter
\* has an empty title.
C17_TitleOrDefault ==
    extract_pc = "returned" =>
        \A i \in DOMAIN chapters :
            LET unit == book.items[KthNonEmpty(book.items, i)]
            IN  /\ chapters[i].title =
                       IF TitleDiscoverable(unit) THEN FirstHeadingText(unit)
                       ELSE DefaultTitle(chapters[i].number)
                /\ chapters[i].title # <<>>

---------------------------------------------------------------------------
(* Claims about the files of a book project, checked under SpecConvert.    *)

\* The metadata dict given to save_metadata, as values of Python.
GivenMetadata == [k \in DOMAIN cv_metadata |-> PyStr(cv_metadata[k])]

\* The chapters given to save_metadata without their content, as values of
\* Python.
GivenSummaries ==
    [i \in DOMAIN cv_chapters |->
        [number     |-> PyInt(cv_chapters[i].number),
         title      |-> PyStr(cv_chapters[i].title),
         filename   |-> PyStr(cv_chapters[i].filename),
         word_count |-> PyInt(cv_chapters[i].word_count)]]

\* The filenames of the chapters of an EPUB.
FilenamesOf(b) ==
    {ExtractedChapters(b.items)[i].filename :
        i \in DOMAIN ExtractedChapters(b.items)}

\* C12: once save_metadata has returned, metadata.yml read back is exactly
\* the metadata given and toc.yml read back is exactly the ordered list of
\* number, title, filename and word_count of the chapters given, whatever
\* an earlier save_metadata stored there.
C12_SaveMetadataRoundTrip ==
    cv_pc \in {"saved", "done"} =>
        /\ fs_metadata.exists /\ fs_toc.exists
        /\ YamlLoadMetadata(fs_metadata) = GivenMetadata
        /\ YamlLoadToc(fs_toc) = GivenSummaries

\* C12's case: save_metadata has returned in a second run, for the book of
\* two chapters, over the files a run of the book of three chapters left,
\* and a value is not written in the file as it stands in the dict.
C12_Witness ==
    /\ cv_pc = "saved"
    /\ cv_runs = 2
    /\ cv_args.epub.book = BookTwoChapters
    /\ FilenamesOf(BookOddTitles) \subseteq DOMAIN fs_chapters
    /\ \E k \in DOMAIN cv_metadata : fs_metadata.fields[k] # cv_metadata[k]

\* The EPUB of the command can be read and every item of it is skipped: no
\* chapter can be extracted.
ZeroChapterEpub ==
    /\ cv_pc \notin {"off", "ready"}
    /\ cv_args.epub.exists
    /\ cv_args.epub.book.readable
    /\ \A i \in DOMAIN cv_args.epub.book.items :
           Skipped(cv_args.epub.book.items[i])

\* C13: convert on an EPUB from which no chapter can be extracted does not
\* complete as a successful conversion (status 0) of 0 chapters.
C13_ZeroChaptersIsAnError == ZeroChapterEpub => cv_pc # "done"

\* Whether p is a path of the mapping, or a directory on the way to one,
\* under books/{slug}/.
InFixedSet(p, slug) ==
    /\ Len(p) >= 2
    /\ SubSeq(p, 1, 2) = BasePath \o <<slug>>
    /\ \E q \in Range(BookStructure(slug)) :
           Len(p) <= Len(q) /\ SubSeq(q, 1, Len(p)) = p

\* The step of convert in which create_book_structure runs.
CreateStructureStep == cv_pc = "idle" /\ cv_pc' = "structured"

\* The project's directories all exist.
ProjectExists == Range(BookStructure(BookSlug)) \subseteq fs_dirs

\* C16: create_book_structure returns the mapping it returned before for
\* the slug, makes every path of the mapping a directory, creates nothing
\* but books/ and directories of the fixed set under books/{slug}/, creates
\* nothing at all on an existing project, and leaves every directory and
\* every file (the EPUB copy, metadata.yml, toc.yml, the chapter files and
\* the audio files) as it was.
C16_CreateStructureIdempotent ==
    [][CreateStructureStep =>
          /\ cv_structure # NoStructure => cv_structure' = cv_structure
          /\ Range(cv_structure') \subseteq fs_dirs'
          /\ fs_dirs \subseteq fs_dirs'
          /\ \A d \in fs_dirs' \ fs_dirs :
                 d = BasePath \/ InFixedSet(d, cv_slug')
          /\ ProjectExists => fs_dirs' = fs_dirs
          /\ fs_source' = fs_source
          /\ fs_metadata' = fs_metadata
          /\ fs_toc' = fs_toc
          /\ fs_chapters' = fs_chapters
          /\ fs_audio' = fs_audio]_vars

\* C16's case: create_book_structure has run in a second convert on a
\* project that holds the files of a conversion and an audio file.
C16_Witness ==
    /\ cv_pc = "structured"
    /\ cv_runs = 2
    /\ fs_metadata.exists /\ fs_toc.exists
    /\ fs_source # <<>> /\ fs_chapters # <<>> /\ fs_audio # <<>>
    /\ cv_structure = BookStructure(BookSlug)

\* C18: when a convert run has completed, whatever runs went before it on
\* the project, toc.yml lists the chapters of that run and every entry of
\* it has its file content/chapters/{filename}.md, holding the heading line
\* and the normalized content of that chapter as that run extracted them;
\* so for every chapter number of the table of contents generate_audio
\* finds the chapter file.
C18_TocEntriesHaveTheirFiles ==
    cv_pc = "done" =>
        LET toc == LoadedChapters(fs_toc)
        IN  /\ Len(toc) = Len(cv_chapters)
            /\ \A i \in DOMAIN toc :
                   /\ toc[i].filename \in DOMAIN fs_chapters
                   /\ fs_chapters[toc[i].filename] =
                          <<"#", " ">> \o cv_chapters[i].title \o <<"\n", "\n">>
                              \o _clean_text(GetText(
                                     cv_args.epub.book.items[
                                         KthNonEmpty(cv_args.epub.book.items, i)]))
            /\ \A n \in DOMAIN ChaptersDict(toc) :
                   ChaptersDict(toc)[n].filename \in DOMAIN fs_chapters

\* C18's case: a second run has completed, of a book whose one chapter
\* has the filename of the first chapter of the book converted before it,
\* whose other chapter file is still there.
C18_Witness ==
    /\ cv_pc = "done"
    /\ cv_runs = 2
    /\ cv_args.epub.book = BookRevised
    /\ FilenamesOf(BookTwoChapters) \subseteq DOMAIN fs_chapters
    /\ FilenamesOf(BookRevised) \subseteq FilenamesOf(BookTwoChapters)

---------------------------------------------------------------------------
(* Claims about the construction of a TTSManager, checked under            *)
(* SpecSynthesis.                                                          *)

\* A TTSManager has been constructed and the engine failed to initialize.
EngineInitFailed == tts_inits > 0 /\ ~tts_ready

\* C14: when the engine fails to initialize in TTSManager(), the error
\* ends the command at once: initialization was attempted exactly once, no
\* synthesis call is made and no audio file written.
C14_InitFailureIsFatal ==
    EngineInitFailed =>
        /\ tts_inits = 1
        /\ ga_pc = "raised" \/ cmp_pc = "raised"
        /\ synth_calls = <<>>
        /\ write_log = <<>>
        /\ fs_audio = <<>>

\* C14's case: generate_audio, asked for two chapters the table of contents
\* has, ended on the failure of the engine to initialize.
C14_Witness ==
    /\ EngineInitFailed
    /\ ga_pc = "raised"
    /\ Len(ga_chapters) = 2
    /\ invalid_report = <<>>
    /\ tts_output_dir = AudioOutputDir(BookDir, "kokoro")

===========================================================================
